---- MODULE Spec2Model ----
(***************************************************************************)
(* Divisibility Sequence Tester (src/main.py).                             *)
(*                                                                         *)
(* A second-order linear recurrence x_n = P*x_{n-1} - Q*x_{n-2} is         *)
(* generated as a finite list and tested for the divisibility property     *)
(* (m | n => x_m | x_n) and the strong divisibility property               *)
(* (gcd(x_m, x_n) = |x_gcd(m,n)|).  Three scan drivers run the generator   *)
(* and both checkers over ranges of parameters.                            *)
(*                                                                         *)
(* Python lists are 0-indexed; a list is modelled as a TLA+ sequence and   *)
(* At(seq, i) reads Python's seq[i].                                       *)
(***************************************************************************)
EXTENDS Integers, Sequences, FiniteSets, TLC

VARIABLES
    args,       \* arguments of generate_sequence: <<P, Q, x0, x1, n>>, or <<>>
    seq,        \* the list handed to the checkers
    calls,      \* names of the functions applied so far
    divResult,  \* value returned by check_divisibility(seq)
    strongResult, \* value returned by check_strong_divisibility(seq)
    mode,       \* which scan function is running ("none" outside a scan)
    scanArgs,   \* arguments of the running scan function
    pc,         \* position inside the running scan function
    P, Q, x0, x1,  \* loop variables of the scan
    results,    \* list 'results' of the scan
    divisibility_sequences,         \* list of records with is_divisibility
    strong_divisibility_sequences,  \* list of records with is_strong_divisibility
    checked,    \* progress counter 'checked'
    total,      \* 'total' computed before the loops
    total_checked  \* value handed to write_results_to_file, -1 before that

checkVars == <<args, seq, calls, divResult, strongResult>>
scanVars == <<mode, scanArgs, pc, P, Q, x0, x1, results,
              divisibility_sequences, strong_divisibility_sequences,
              checked, total, total_checked>>
vars == <<args, seq, calls, divResult, strongResult,
          mode, scanArgs, pc, P, Q, x0, x1, results,
          divisibility_sequences, strong_divisibility_sequences,
          checked, total, total_checked>>

----------------------------------------------------------------------------
(* Bounds of the model *)

\* largest absolute value of a term of a directly supplied list
MaxVal == 2
\* largest top index (len - 1) of a directly supplied list
MaxTop == 4
\* largest n handed to generate_sequence with free parameters
GenMaxN == 3
\* largest absolute value of P, Q, x0, x1 handed to generate_sequence
GenMaxParam == 1

----------------------------------------------------------------------------
(* Python primitives *)

\* Python's None
None == <<>>

Abs(a) == IF a < 0 THEN -a ELSE a

\* smallest element of a non-empty set of integers: the next value of a range
Min(S) == CHOOSE a \in S : \A b \in S : a <= b

\* seq[i] of a Python list
At(s, i) == s[i + 1]

\* Python's a % b for b # 0: the result has the sign of the divisor
PyMod(a, b) == IF b > 0 THEN a % b ELSE -((-a) % (-b))

\* math.gcd: Euclid's algorithm on the absolute values, never negative
RECURSIVE Gcd(_, _)
Gcd(a, b) == IF b = 0 THEN Abs(a) ELSE Gcd(Abs(b), Abs(a) % Abs(b))

\* a returned tuple (flag, counterexample)
Return(flag, cex) == [raised |-> FALSE, satisfied |-> flag, counterexample |-> cex]

\* the call ended in ZeroDivisionError instead of returning
ZeroDivisionError == [raised |-> TRUE, satisfied |-> FALSE, counterexample |-> None]

\* placeholder of a result variable before the call is made
NotCalled == [raised |-> FALSE, satisfied |-> FALSE, counterexample |-> None]

----------------------------------------------------------------------------
(* generate_sequence *)

\* the index slip seq[i-1] for seq[i-2]
NextTermSlip(p, q, s) == p * s[Len(s)] - q * s[Len(s)]

\* line 26: P * seq[i-1] - Q * seq[i-2], s being the list built so far
NextTerm(p, q, s) == p * s[Len(s)] - q * s[Len(s) - 1]

\* lines 25-26: for i in range(2, n + 1): seq.append(...)
RECURSIVE GenLoop(_, _, _, _, _)
GenLoop(p, q, s, i, n) ==
    IF i > n THEN s
    ELSE GenLoop(p, q, Append(s, NextTerm(p, q, s)), i + 1, n)

generate_sequence(p, q, a0, a1, n) ==
    IF n < 0 THEN <<>>
    ELSE IF n = 0 THEN <<a0>>
    ELSE GenLoop(p, q, <<a0, a1>>, 2, n)

----------------------------------------------------------------------------
(* check_divisibility *)

\* a skip test that is never taken
SkipDivisorNever(s, m) == FALSE

\* line 41: if seq[m] == 0: continue
SkipDivisor(s, m) == At(s, m) = 0

\* the range starting one late
InnerRangeLate(n, m) == 3 .. (n \div m)

\* line 44: range(2, n // m + 1)
InnerRange(n, m) == 2 .. (n \div m)

\* the test with "!=" turned into ">"
DivFailsPositive(s, m, idx) == PyMod(At(s, idx), At(s, m)) > 0

\* line 49: seq[idx] % seq[m] != 0, evaluated with a non-zero divisor
DivFails(s, m, idx) == PyMod(At(s, idx), At(s, m)) # 0

\* lines 44-52: the loop over the remaining values ks of k, ascending;
\* None when the loop ends without a return
RECURSIVE DivInner(_, _, _, _)
DivInner(s, n, m, ks) ==
    IF ks = {} THEN None
    ELSE LET k == Min(ks)
             idx == m * k
         IN  IF idx > n THEN None
             ELSE IF At(s, m) = 0 THEN <<ZeroDivisionError>>
             ELSE IF DivFails(s, m, idx) THEN <<Return(FALSE, <<m, idx>>)>>
             ELSE DivInner(s, n, m, ks \ {k})

\* lines 40-54: the loop over m = mm, mm+1, .., n and the final return
RECURSIVE DivOuter(_, _, _)
DivOuter(s, n, m) ==
    IF m > n THEN Return(TRUE, None)
    ELSE IF SkipDivisor(s, m) THEN DivOuter(s, n, m + 1)
    ELSE LET r == DivInner(s, n, m, InnerRange(n, m)) IN
         IF r # None THEN r[1] ELSE DivOuter(s, n, m + 1)

\* a guard that rejects the empty list
check_divisibilityRejectEmpty(s) ==
    IF Len(s) = 0 THEN Return(FALSE, None) ELSE DivOuter(s, Len(s) - 1, 1)

\* lines 30-54
check_divisibility(s) == DivOuter(s, Len(s) - 1, 1)

----------------------------------------------------------------------------
(* check_strong_divisibility *)

\* the inner range stopping one early
StrongInnerRangeShort(n, m) == (m + 1) .. (n - 1)

\* line 68: range(m + 1, n + 1)
StrongInnerRange(n, m) == (m + 1) .. n

\* the comparison without abs()
StrongFailsSigned(s, m, k) == Gcd(At(s, m), At(s, k)) # At(s, Gcd(m, k))

\* the comparison against the term at index 1 instead of index g
StrongFailsFirst(s, m, k) == Gcd(At(s, m), At(s, k)) # Abs(At(s, 1))

\* lines 69-72: g = gcd(m, k); gcd(seq[m], seq[k]) != abs(seq[g])
StrongFails(s, m, k) == Gcd(At(s, m), At(s, k)) # Abs(At(s, Gcd(m, k)))

\* lines 68-76: the loop over the remaining values ks of k, ascending
RECURSIVE StrongInner(_, _, _)
StrongInner(s, m, ks) ==
    IF ks = {} THEN None
    ELSE LET k == Min(ks) IN
         IF StrongFails(s, m, k) THEN <<Return(FALSE, <<m, k>>)>>
         ELSE StrongInner(s, m, ks \ {k})

\* lines 67-78: the loop over m and the final return
RECURSIVE StrongOuter(_, _, _)
StrongOuter(s, n, m) ==
    IF m > n THEN Return(TRUE, None)
    ELSE LET r == StrongInner(s, m, StrongInnerRange(n, m)) IN
         IF r # None THEN r[1] ELSE StrongOuter(s, n, m + 1)

\* lines 57-78
check_strong_divisibility(s) == StrongOuter(s, Len(s) - 1, 1)

----------------------------------------------------------------------------
(* Calls of the generator and the checkers *)

\* default of max_n
DefaultMaxN == 20

\* P=1, Q=-1, x0=0, x1=1 over indices 0..max_n
Fibonacci == <<1, -1, 0, 1, DefaultMaxN>>

\* P=1, Q=-1, x0=2, x1=1 over indices 0..max_n
Lucas == <<1, -1, 2, 1, DefaultMaxN>>

Params == (-GenMaxParam) .. GenMaxParam

\* argument tuples <<P, Q, x0, x1, n>> of generate_sequence
GenArgs ==
    (Params \X Params \X Params \X Params \X ((-1) .. GenMaxN))
        \cup {Fibonacci, Lucas}

\* lists of integers handed directly to the checkers
DirectLists ==
    UNION {[1 .. len -> (-MaxVal) .. MaxVal] : len \in 0 .. (MaxTop + 1)}

\* no scan is running
ScanIdle ==
    /\ mode = "none"
    /\ scanArgs = <<>>
    /\ pc = "idle"
    /\ P = 0 /\ Q = 0 /\ x0 = 0 /\ x1 = 0
    /\ results = <<>>
    /\ divisibility_sequences = <<>>
    /\ strong_divisibility_sequences = <<>>
    /\ checked = 0
    /\ total = 0
    /\ total_checked = -1

\* a caller holds an arbitrary list of integers
Init ==
    /\ args = <<>>
    /\ seq \in DirectLists
    /\ calls = {}
    /\ divResult = NotCalled
    /\ strongResult = NotCalled
    /\ ScanIdle

\* a caller holds the arguments of generate_sequence
InitGen ==
    /\ args \in GenArgs
    /\ seq = <<>>
    /\ calls = {}
    /\ divResult = NotCalled
    /\ strongResult = NotCalled
    /\ ScanIdle

\* the list the checkers are applied to exists
SeqReady == args = <<>> \/ "generate_sequence" \in calls

\* seq = generate_sequence(P, Q, x0, x1, n)
GenerateSequence ==
    /\ args # <<>>
    /\ "generate_sequence" \notin calls
    /\ seq' = generate_sequence(args[1], args[2], args[3], args[4], args[5])
    /\ calls' = calls \cup {"generate_sequence"}
    /\ UNCHANGED <<args, divResult, strongResult>>
    /\ UNCHANGED scanVars

\* is_div, counterex = check_divisibility(seq)
CheckDivisibility ==
    /\ SeqReady
    /\ "check_divisibility" \notin calls
    /\ divResult' = check_divisibility(seq)
    /\ calls' = calls \cup {"check_divisibility"}
    /\ UNCHANGED <<args, seq, strongResult>>
    /\ UNCHANGED scanVars

\* is_strong, counterex = check_strong_divisibility(seq)
CheckStrongDivisibility ==
    /\ SeqReady
    /\ "check_strong_divisibility" \notin calls
    /\ strongResult' = check_strong_divisibility(seq)
    /\ calls' = calls \cup {"check_strong_divisibility"}
    /\ UNCHANGED <<args, seq, divResult>>
    /\ UNCHANGED scanVars

Next == CheckDivisibility \/ CheckStrongDivisibility

Spec == Init /\ [][Next]_vars

NextGen == GenerateSequence \/ CheckDivisibility \/ CheckStrongDivisibility

SpecGen == InitGen /\ [][NextGen]_vars

----------------------------------------------------------------------------
(* Properties of the checkers and the generator *)

\* d divides a, by the definition of divisibility
Divides(d, a) == \E c \in (-Abs(a)) .. Abs(a) : a = c * d

\* the greatest common divisor by its definition; gcd(0, 0) = 0
GcdDef(a, b) ==
    IF a = 0 /\ b = 0 THEN 0
    ELSE LET top == IF Abs(a) > Abs(b) THEN Abs(a) ELSE Abs(b) IN
         CHOOSE d \in 1 .. top :
             /\ Divides(d, a) /\ Divides(d, b)
             /\ \A e \in (d + 1) .. top : ~(Divides(e, a) /\ Divides(e, b))

\* first pair of a non-empty set in the order m ascending, then second ascending
LexFirst(S) ==
    CHOOSE p \in S : \A r \in S : p[1] < r[1] \/ (p[1] = r[1] /\ p[2] <= r[2])

\* pairs (m, idx) of indices, idx a proper multiple of m, seq[m] # 0 not
\* dividing seq[idx]
DivFailingPairs(s) ==
    LET n == Len(s) - 1 IN
    {p \in (1 .. n) \X (1 .. n) :
        /\ At(s, p[1]) # 0
        /\ \E k \in 2 .. n : p[2] = p[1] * k
        /\ ~Divides(At(s, p[1]), At(s, p[2]))}

\* pairs m < k with gcd(seq[m], seq[k]) # |seq[gcd(m, k)]|
StrongFailingPairs(s) ==
    LET n == Len(s) - 1 IN
    {p \in (1 .. n) \X (1 .. n) :
        /\ p[1] < p[2]
        /\ GcdDef(At(s, p[1]), At(s, p[2])) # Abs(At(s, GcdDef(p[1], p[2])))}

DivCalled == "check_divisibility" \in calls
StrongCalled == "check_strong_divisibility" \in calls
Generated == "generate_sequence" \in calls

\* C1: check_divisibility(seq) returns (True, None) exactly when no pair
\* (m, idx) with 1 <= m, seq[m] # 0, idx = m*k <= n, k >= 2 has seq[m] not
\* dividing seq[idx]; otherwise it returns (False, p), p the first such pair
\* in the order m ascending, then k ascending.
C1_DivisibilityContract ==
    DivCalled =>
        divResult = IF DivFailingPairs(seq) = {}
                    THEN Return(TRUE, None)
                    ELSE Return(FALSE, LexFirst(DivFailingPairs(seq)))

\* a list with failing pairs under two different divisors, one a zero-free
\* later divisor, has been checked
C1_Witness ==
    /\ DivCalled
    /\ \E p, r \in DivFailingPairs(seq) : p[1] < r[1]
    /\ divResult.counterexample = LexFirst(DivFailingPairs(seq))

\* C2: check_strong_divisibility(seq) returns (True, None) exactly when
\* gcd(seq[m], seq[k]) = |seq[gcd(m, k)]| for every 1 <= m < k <= n;
\* otherwise (False, p), p the first violating pair, m ascending then k.
C2_StrongContract ==
    StrongCalled =>
        strongResult = IF StrongFailingPairs(seq) = {}
                       THEN Return(TRUE, None)
                       ELSE Return(FALSE, LexFirst(StrongFailingPairs(seq)))

\* a list whose only violating pairs have m >= 2 has been checked
C2_Witness ==
    /\ StrongCalled
    /\ StrongFailingPairs(seq) # {}
    /\ \A p \in StrongFailingPairs(seq) : p[1] >= 2
    /\ strongResult.counterexample = LexFirst(StrongFailingPairs(seq))

\* C3: generate_sequence(P, Q, x0, x1, n), n >= -1, has exactly n+1
\* elements: empty for n = -1, [x0] for n = 0, and for n >= 1 seq[0] = x0,
\* seq[1] = x1, seq[i] = P*seq[i-1] - Q*seq[i-2] for i in 2..n.
C3_GenerateContract ==
    Generated =>
        LET n == args[5] IN
        /\ Len(seq) = n + 1
        /\ n = -1 => seq = <<>>
        /\ n = 0 => seq = <<args[3]>>
        /\ n >= 1 => At(seq, 0) = args[3] /\ At(seq, 1) = args[4]
        /\ \A i \in 2 .. n :
               At(seq, i) = args[1] * At(seq, i - 1) - args[2] * At(seq, i - 2)

\* a list of at least four terms was generated with P, Q, x0 and x1 non-zero
C3_Witness ==
    /\ Generated
    /\ args[5] >= 3
    /\ args[1] # 0 /\ args[2] # 0 /\ args[3] # 0 /\ args[4] # 0
    /\ At(seq, 3) # 0

\* C4: whenever check_strong_divisibility(seq) reports satisfied = True,
\* check_divisibility(seq) reports satisfied = True as well.
C4_StrongImpliesDivisibility ==
    (DivCalled /\ StrongCalled /\ strongResult.satisfied) => divResult.satisfied

\* both checkers accepted a list with a zero term and a negative term at
\* indices that have proper multiples in range
C4_Witness ==
    /\ DivCalled /\ StrongCalled
    /\ strongResult.satisfied /\ divResult.satisfied
    /\ Len(seq) >= 5
    /\ \E i, j \in 1 .. 2 : At(seq, i) = 0 /\ At(seq, j) < -1

\* C5: check_divisibility never takes a remainder with a zero divisor: it
\* raises no ZeroDivisionError, and a reported counterexample (m, idx)
\* never has seq[m] = 0.
C5_NoZeroDivisor ==
    DivCalled =>
        /\ ~divResult.raised
        /\ divResult.counterexample # None =>
               At(seq, divResult.counterexample[1]) # 0

\* a list with seq[m] = 0 and a non-zero term at a proper multiple of m has
\* been checked
C5_Witness ==
    /\ DivCalled
    /\ \E m \in 1 .. (Len(seq) - 1) :
           /\ At(seq, m) = 0
           /\ 2 * m <= Len(seq) - 1
           /\ At(seq, 2 * m) # 0

\* the list s with the terms at the indices in S negated
Negated(s, S) == [i \in 1 .. Len(s) |-> IF (i - 1) \in S THEN -s[i] ELSE s[i]]

\* C6: check_strong_divisibility compares against |seq[g]|: a list whose
\* pairs all have gcd(seq[m], seq[k]) = |seq[gcd(m,k)]| is reported
\* satisfied also when seq[g] is negative, and negating any subset of the
\* terms leaves the returned flag and counterexample unchanged.
C6_SignInsensitive ==
    StrongCalled =>
        /\ StrongFailingPairs(seq) = {} => strongResult = Return(TRUE, None)
        /\ \A S \in SUBSET (0 .. (Len(seq) - 1)) :
               check_strong_divisibility(Negated(seq, S)) = strongResult

\* an accepted list has a pair whose value-level gcd is the negative of the
\* term at the gcd index
C6_Witness ==
    /\ StrongCalled
    /\ strongResult.satisfied
    /\ \E m, k \in 1 .. (Len(seq) - 1) :
           /\ m < k
           /\ At(seq, GcdDef(m, k)) < 0
           /\ GcdDef(At(seq, m), At(seq, k)) = -At(seq, GcdDef(m, k))

\* C7: for the Fibonacci parameters over indices 0..20 both checkers return
\* (True, None).
C7_Fibonacci ==
    (args = Fibonacci /\ Generated) =>
        /\ DivCalled => divResult = Return(TRUE, None)
        /\ StrongCalled => strongResult = Return(TRUE, None)

\* the 21 Fibonacci terms have been generated and passed both checkers
C7_Witness ==
    /\ args = Fibonacci /\ Generated /\ DivCalled /\ StrongCalled
    /\ Len(seq) = 21 /\ At(seq, 20) = 6765
    /\ divResult.satisfied /\ strongResult.satisfied

\* C8: for the Lucas parameters over indices 0..20 check_divisibility
\* returns (False, (2, 4)): L_2 = 3 does not divide L_4 = 7.
C8_Lucas ==
    (args = Lucas /\ Generated /\ DivCalled) =>
        /\ divResult = Return(FALSE, <<2, 4>>)
        /\ At(seq, 2) = 3 /\ At(seq, 4) = 7

\* the 21 Lucas terms have been generated and checked
C8_Witness ==
    /\ args = Lucas /\ Generated /\ DivCalled
    /\ Len(seq) = 21
    /\ ~divResult.satisfied

\* C9: on a list of length 0 or 1 both checkers return (True, None).
C9_ShortLists ==
    Len(seq) <= 1 =>
        /\ DivCalled => divResult = Return(TRUE, None)
        /\ StrongCalled => strongResult = Return(TRUE, None)

\* both checkers have been applied to the empty list
C9_Witness ==
    /\ args = <<>> /\ seq = <<>>
    /\ DivCalled /\ StrongCalled
    /\ divResult.satisfied /\ strongResult.satisfied

----------------------------------------------------------------------------
(* The scan drivers: scan_all, scan_initial_conditions, scan_parameters *)

\* largest number of values in a scanned range
MaxWidth == 2
\* largest max_n handed to a scan
ScanMaxN == 4

\* lower ends of the scanned ranges
ScanLos == {-1, 0}

\* ranges (min, max) typed at the prompts; min = max + 1 is an empty range
ScanRanges == {<<lo, lo + w - 1>> : lo \in ScanLos, w \in 0 .. MaxWidth}

\* values of a parameter that a scan keeps fixed
ScanFixed == (-1) .. 1

\* values of max_n: a one-term list, a two-term list, a list with idx = 4
ScanMaxNs == {0, 1, ScanMaxN}

\* range[1] - range[0] + 1
Count(r) == r[2] - r[1] + 1

\* seq[:k]
Prefix(s, k) == SubSeq(s, 1, IF Len(s) < k THEN Len(s) ELSE k)

\* all(s == 0 for s in seq[1:])
Trivial(s) == \A i \in 2 .. Len(s) : s[i] = 0

\* the strong list filled from the divisibility flag
AppendResultInferred(r) ==
    /\ results' = Append(results, r)
    /\ divisibility_sequences' =
           IF r.is_divisibility THEN Append(divisibility_sequences, r)
           ELSE divisibility_sequences
    /\ strong_divisibility_sequences' =
           IF r.is_divisibility
           THEN Append(strong_divisibility_sequences, r)
           ELSE strong_divisibility_sequences

\* results.append(result) and the two conditional appends that follow it
AppendResult(r) ==
    /\ results' = Append(results, r)
    /\ divisibility_sequences' =
           IF r.is_divisibility THEN Append(divisibility_sequences, r)
           ELSE divisibility_sequences
    /\ strong_divisibility_sequences' =
           IF r.is_strong_divisibility
           THEN Append(strong_divisibility_sequences, r)
           ELSE strong_divisibility_sequences

\* a 'continue' that appends nothing
NoResult ==
    UNCHANGED <<results, divisibility_sequences, strong_divisibility_sequences>>

\* the lists and counters at the top of a scan function
ScanStart ==
    /\ results = <<>>
    /\ divisibility_sequences = <<>>
    /\ strong_divisibility_sequences = <<>>
    /\ checked = 0
    /\ total_checked = -1

\* the result dictionary of scan_all
ResultAll(p, q, a0, a1, s) ==
    [P |-> p, Q |-> q, x0 |-> a0, x1 |-> a1,
     discriminant |-> p * p - 4 * q,
     is_divisibility |-> check_divisibility(s).satisfied,
     is_strong_divisibility |-> check_strong_divisibility(s).satisfied,
     first_terms |-> Prefix(s, 6)]

\* the result dictionary of scan_initial_conditions
ResultInitial(a0, a1, s) ==
    [x0 |-> a0, x1 |-> a1,
     is_divisibility |-> check_divisibility(s).satisfied,
     is_strong_divisibility |-> check_strong_divisibility(s).satisfied,
     first_terms |-> Prefix(s, 8)]

\* the result dictionary of scan_parameters
ResultParameters(p, q, s) ==
    [P |-> p, Q |-> q,
     discriminant |-> p * p - 4 * q,
     is_divisibility |-> check_divisibility(s).satisfied,
     is_strong_divisibility |-> check_strong_divisibility(s).satisfied,
     first_terms |-> Prefix(s, 8)]

\* scan_all is entered: the state before its first loop
InitScanAll ==
    /\ mode = "scan_all"
    /\ scanArgs \in [P_range : ScanRanges, Q_range : ScanRanges,
                     x0_range : ScanRanges, x1_range : ScanRanges,
                     max_n : ScanMaxNs]
    /\ total = Count(scanArgs.P_range) * Count(scanArgs.Q_range)
                 * Count(scanArgs.x0_range) * Count(scanArgs.x1_range)
    /\ ScanStart
    /\ P = scanArgs.P_range[1] /\ Q = 0 /\ x0 = 0 /\ x1 = 0
    /\ pc = "P_loop"

\* scan_initial_conditions is entered
InitScanInitial ==
    /\ mode = "scan_initial_conditions"
    /\ scanArgs \in [P : ScanFixed, Q : ScanFixed,
                     x0_range : ScanRanges, x1_range : ScanRanges,
                     max_n : ScanMaxNs]
    /\ total = Count(scanArgs.x0_range) * Count(scanArgs.x1_range)
    /\ ScanStart
    /\ P = 0 /\ Q = 0 /\ x0 = scanArgs.x0_range[1] /\ x1 = 0
    /\ pc = "x0_loop"

\* scan_parameters is entered
InitScanParameters ==
    /\ mode = "scan_parameters"
    /\ scanArgs \in [P_range : ScanRanges, Q_range : ScanRanges,
                     x0 : ScanFixed, x1 : ScanFixed,
                     max_n : ScanMaxNs]
    /\ total = Count(scanArgs.P_range) * Count(scanArgs.Q_range)
    /\ ScanStart
    /\ P = scanArgs.P_range[1] /\ Q = 0 /\ x0 = 0 /\ x1 = 0
    /\ pc = "P_loop"

InitScan ==
    /\ args = <<>> /\ seq = <<>> /\ calls = {}
    /\ divResult = NotCalled /\ strongResult = NotCalled
    /\ (InitScanAll \/ InitScanInitial \/ InitScanParameters)

\* scan_all, line 286: for P in range(P_range[0], P_range[1] + 1)
ScanAll_P ==
    /\ mode = "scan_all" /\ pc = "P_loop"
    /\ IF P > scanArgs.P_range[2]
       THEN pc' = "finish" /\ Q' = Q
       ELSE pc' = "Q_loop" /\ Q' = scanArgs.Q_range[1]
    /\ NoResult
    /\ UNCHANGED <<mode, scanArgs, P, x0, x1, checked, total, total_checked>>
    /\ UNCHANGED checkVars

\* an increment that forgets the x1 range
QSkipIncrementOneRange == Count(scanArgs.x0_range)

\* scan_all, line 290: x0_count * x1_count, added to checked when Q == 0
QSkipIncrement == Count(scanArgs.x0_range) * Count(scanArgs.x1_range)

\* scan_all, lines 287-294: for Q in range(...), with the Q == 0 skip
ScanAll_Q ==
    /\ mode = "scan_all" /\ pc = "Q_loop"
    /\ IF Q > scanArgs.Q_range[2]
       THEN /\ pc' = "P_loop" /\ P' = P + 1
            /\ UNCHANGED <<Q, x0, checked>>
       ELSE IF Q = 0
       THEN /\ checked' = checked + QSkipIncrement
            /\ Q' = Q + 1
            /\ UNCHANGED <<pc, P, x0>>
       ELSE /\ pc' = "x0_loop" /\ x0' = scanArgs.x0_range[1]
            /\ UNCHANGED <<P, Q, checked>>
    /\ NoResult
    /\ UNCHANGED <<mode, scanArgs, x1, total, total_checked>>
    /\ UNCHANGED checkVars

\* scan_all, line 296: for x0 in range(...)
ScanAll_x0 ==
    /\ mode = "scan_all" /\ pc = "x0_loop"
    /\ IF x0 > scanArgs.x0_range[2]
       THEN pc' = "Q_loop" /\ Q' = Q + 1 /\ x1' = x1
       ELSE pc' = "x1_loop" /\ x1' = scanArgs.x1_range[1] /\ Q' = Q
    /\ NoResult
    /\ UNCHANGED <<mode, scanArgs, P, x0, checked, total, total_checked>>
    /\ UNCHANGED checkVars

\* scan_all, lines 297-331: for x1 in range(...) and the loop body
ScanAll_x1 ==
    /\ mode = "scan_all" /\ pc = "x1_loop"
    /\ IF x1 > scanArgs.x1_range[2]
       THEN /\ pc' = "x0_loop" /\ x0' = x0 + 1
            /\ NoResult
            /\ UNCHANGED <<x1, checked>>
       ELSE /\ checked' = checked + 1
            /\ x1' = x1 + 1
            /\ UNCHANGED <<pc, x0>>
            /\ IF x0 = 0 /\ x1 = 0 THEN NoResult
               ELSE LET s == generate_sequence(P, Q, x0, x1, scanArgs.max_n) IN
                    IF Trivial(s) THEN NoResult
                    ELSE AppendResult(ResultAll(P, Q, x0, x1, s))
    /\ UNCHANGED <<mode, scanArgs, P, Q, total, total_checked>>
    /\ UNCHANGED checkVars

\* lines 349-355, 434-440, 519-525: write_results_to_file(..., checked),
\* print_summary(..., checked, ...), return results
ScanFinish ==
    /\ mode # "none" /\ pc = "finish"
    /\ total_checked' = checked
    /\ pc' = "done"
    /\ NoResult
    /\ UNCHANGED <<mode, scanArgs, P, Q, x0, x1, checked, total>>
    /\ UNCHANGED checkVars

\* scan_initial_conditions, line 383: for x0 in range(...)
ScanInitial_x0 ==
    /\ mode = "scan_initial_conditions" /\ pc = "x0_loop"
    /\ IF x0 > scanArgs.x0_range[2]
       THEN pc' = "finish" /\ x1' = x1
       ELSE pc' = "x1_loop" /\ x1' = scanArgs.x1_range[1]
    /\ NoResult
    /\ UNCHANGED <<mode, scanArgs, P, Q, x0, checked, total, total_checked>>
    /\ UNCHANGED checkVars

\* scan_initial_conditions, lines 384-415: for x1 in range(...) and the body
ScanInitial_x1 ==
    /\ mode = "scan_initial_conditions" /\ pc = "x1_loop"
    /\ IF x1 > scanArgs.x1_range[2]
       THEN /\ pc' = "x0_loop" /\ x0' = x0 + 1
            /\ NoResult
            /\ UNCHANGED <<x1, checked>>
       ELSE /\ checked' = checked + 1
            /\ x1' = x1 + 1
            /\ UNCHANGED <<pc, x0>>
            /\ IF x0 = 0 /\ x1 = 0 THEN NoResult
               ELSE LET s == generate_sequence(scanArgs.P, scanArgs.Q, x0, x1,
                                               scanArgs.max_n) IN
                    IF Trivial(s) THEN NoResult
                    ELSE AppendResult(ResultInitial(x0, x1, s))
    /\ UNCHANGED <<mode, scanArgs, P, Q, total, total_checked>>
    /\ UNCHANGED checkVars

\* scan_parameters, line 466: for P in range(...)
ScanParameters_P ==
    /\ mode = "scan_parameters" /\ pc = "P_loop"
    /\ IF P > scanArgs.P_range[2]
       THEN pc' = "finish" /\ Q' = Q
       ELSE pc' = "Q_loop" /\ Q' = scanArgs.Q_range[1]
    /\ NoResult
    /\ UNCHANGED <<mode, scanArgs, P, x0, x1, checked, total, total_checked>>
    /\ UNCHANGED checkVars

\* scan_parameters, lines 467-501: for Q in range(...) and the body
ScanParameters_Q ==
    /\ mode = "scan_parameters" /\ pc = "Q_loop"
    /\ IF Q > scanArgs.Q_range[2]
       THEN /\ pc' = "P_loop" /\ P' = P + 1
            /\ NoResult
            /\ UNCHANGED <<Q, checked>>
       ELSE /\ checked' = checked + 1
            /\ Q' = Q + 1
            /\ UNCHANGED <<pc, P>>
            /\ IF Q = 0 THEN NoResult
               ELSE LET s == generate_sequence(P, Q, scanArgs.x0, scanArgs.x1,
                                               scanArgs.max_n) IN
                    IF Trivial(s) THEN NoResult
                    ELSE AppendResult(ResultParameters(P, Q, s))
    /\ UNCHANGED <<mode, scanArgs, x0, x1, total, total_checked>>
    /\ UNCHANGED checkVars

NextScan ==
    \/ ScanAll_P \/ ScanAll_Q \/ ScanAll_x0 \/ ScanAll_x1
    \/ ScanInitial_x0 \/ ScanInitial_x1
    \/ ScanParameters_P \/ ScanParameters_Q
    \/ ScanFinish

SpecScan == InitScan /\ [][NextScan]_vars

----------------------------------------------------------------------------
(* Properties of the scan drivers *)

\* the values of a range (min, max)
RangeSet(r) == r[1] .. r[2]

\* the combinations <<P, Q, x0, x1>> the running scan iterates over
Combinations ==
    IF mode = "scan_all"
    THEN RangeSet(scanArgs.P_range) \X RangeSet(scanArgs.Q_range)
           \X RangeSet(scanArgs.x0_range) \X RangeSet(scanArgs.x1_range)
    ELSE IF mode = "scan_initial_conditions"
    THEN {scanArgs.P} \X {scanArgs.Q}
           \X RangeSet(scanArgs.x0_range) \X RangeSet(scanArgs.x1_range)
    ELSE RangeSet(scanArgs.P_range) \X RangeSet(scanArgs.Q_range)
           \X {scanArgs.x0} \X {scanArgs.x1}

\* the record r was made for the combination c
RecordFor(r, c) ==
    IF mode = "scan_all"
    THEN r.P = c[1] /\ r.Q = c[2] /\ r.x0 = c[3] /\ r.x1 = c[4]
    ELSE IF mode = "scan_initial_conditions"
    THEN r.x0 = c[3] /\ r.x1 = c[4]
    ELSE r.P = c[1] /\ r.Q = c[2]

\* number of records of the results list made for the combination c
RecordCount(c) ==
    Cardinality({i \in 1 .. Len(results) : RecordFor(results[i], c)})

\* the terms x_0 .. x_n by the recurrence, as a function of the index
RECURSIVE Term(_, _)
Term(c, i) ==
    IF i = 0 THEN c[3]
    ELSE IF i = 1 THEN c[4]
    ELSE c[1] * Term(c, i - 1) - c[2] * Term(c, i - 2)

\* Q = 0, or x0 = x1 = 0, or every term from index 1 onward is 0
Degenerate(c) ==
    \/ c[2] = 0
    \/ (c[3] = 0 /\ c[4] = 0)
    \/ \A i \in 1 .. scanArgs.max_n : Term(c, i) = 0

\* C10: after a scan in any mode, results has no record for a degenerate
\* combination (Q = 0, or x0 = x1 = 0, or all terms from index 1 on are 0)
\* and exactly one record for every other combination of the ranges.
C10_NoDegenerateRecords ==
    pc = "done" =>
        \A c \in Combinations :
            RecordCount(c) = IF Degenerate(c) THEN 0 ELSE 1

\* the same statement for the two modes in which Q is scanned
C10_ScannedQ ==
    (pc = "done" /\ mode # "scan_initial_conditions") =>
        \A c \in Combinations :
            RecordCount(c) = IF Degenerate(c) THEN 0 ELSE 1

\* the list of terms x_0 .. x_n of the combination c, by the recurrence
TermSeq(c, n) == [i \in 1 .. (n + 1) |-> Term(c, i - 1)]

\* the combination <<P, Q, x0, x1>> a record of scan_all was made for
KeyOf(r) == <<r.P, r.Q, r.x0, r.x1>>

\* a comes strictly before b in the order P, then Q, then x0, then x1
LexBefore(a, b) ==
    \E i \in 1 .. 4 : a[i] < b[i] /\ \A j \in 1 .. (i - 1) : a[j] = b[j]

IsDivisibility(r) == r.is_divisibility
IsStrongDivisibility(r) == r.is_strong_divisibility

\* C11: at every point of a scan_all run the records of results are in
\* iteration order (P, then Q, then x0, then x1, each ascending), the two
\* accumulated lists are the order-preserving sub-lists of results with
\* is_divisibility, resp. is_strong_divisibility, set, and each flag is the
\* outcome of its own property on that combination's sequence.
C11_OrderedFilteredLists ==
    mode = "scan_all" =>
        /\ \A i, j \in 1 .. Len(results) :
               i < j => LexBefore(KeyOf(results[i]), KeyOf(results[j]))
        /\ divisibility_sequences = SelectSeq(results, IsDivisibility)
        /\ strong_divisibility_sequences
               = SelectSeq(results, IsStrongDivisibility)
        /\ \A i \in 1 .. Len(results) :
               LET s == TermSeq(KeyOf(results[i]), scanArgs.max_n) IN
               /\ results[i].is_divisibility = (DivFailingPairs(s) = {})
               /\ results[i].is_strong_divisibility
                      = (StrongFailingPairs(s) = {})

\* a scan_all run has recorded, under different values of P, a sequence
\* that is a divisibility but not a strong divisibility sequence and one
\* that is neither, so the three lists differ
C11_Witness ==
    /\ mode = "scan_all"
    /\ \E i, j \in 1 .. Len(results) :
           /\ results[i].P # results[j].P
           /\ results[i].is_divisibility
           /\ ~results[i].is_strong_divisibility
           /\ ~results[j].is_divisibility
    /\ Len(strong_divisibility_sequences) < Len(divisibility_sequences)
    /\ Len(divisibility_sequences) < Len(results)
    /\ Len(strong_divisibility_sequences) > 0

\* every range of the running scan_all has min <= max
RangesNonEmpty ==
    /\ scanArgs.P_range[1] <= scanArgs.P_range[2]
    /\ scanArgs.Q_range[1] <= scanArgs.Q_range[2]
    /\ scanArgs.x0_range[1] <= scanArgs.x0_range[2]
    /\ scanArgs.x1_range[1] <= scanArgs.x1_range[2]

\* C12: in scan_all with every range non-empty, 0 <= checked <= total in
\* every state, total is the size of the cartesian product of the ranges,
\* and once the loops have finished checked equals total, which is the
\* value reported as 'Total combinations checked', whatever was skipped.
C12_ProgressCounter ==
    (mode = "scan_all" /\ RangesNonEmpty) =>
        /\ 0 <= checked /\ checked <= total
        /\ total = Cardinality(Combinations)
        /\ pc \in {"finish", "done"} => checked = total
        /\ pc = "done" => total_checked = total

\* a scan_all run over ranges that contain Q = 0 and a trivial sequence has
\* finished: combinations were skipped in both ways and some were recorded
C12_Witness ==
    /\ mode = "scan_all" /\ RangesNonEmpty /\ pc = "done"
    /\ 0 \in RangeSet(scanArgs.Q_range)
    /\ 0 \in RangeSet(scanArgs.x0_range) /\ 0 \in RangeSet(scanArgs.x1_range)
    /\ Cardinality(RangeSet(scanArgs.x0_range)) > 1
    /\ Cardinality(RangeSet(scanArgs.x1_range)) > 1
    /\ Len(results) > 0
    /\ total_checked = total
    /\ Len(results) < total

====
